---- MODULE Spec2Model ----
(***************************************************************************)
(* The aggregation layer of the analytics dashboard: the two session and   *)
(* cohort fetchers with their dummy-data fallback (data_handler), the      *)
(* overall view (aggregate_overall, update_overall) and the per-page view  *)
(* (aggregate_pagewise, update_page_dropdown, update_pagewise).            *)
(*                                                                         *)
(* Instants are whole seconds counted from 00:00:00 of day 0 of the        *)
(* model's calendar; day 0 is a Monday.  A Python dict is a sequence of    *)
(* items in insertion order, a DataFrame a sequence of rows, a float       *)
(* quotient a/b the pair <<a, b>>.                                         *)
(***************************************************************************)
EXTENDS Integers, Sequences, FiniteSets, TLC

VARIABLES
    dbSessions,   \* rows of the sessions table, in id order
    dbUsers,      \* the users table: user_id -> first_login
    dummyFile,    \* dummy_data.pkl: absent, or the pickled (sessions, fake_users)
    FAKE_USERS,   \* data_handler.FAKE_USERS: None, or user_id -> first_login
    call,         \* the arguments of the callback handled last
    frame,        \* its locals: the window, the fetched sessions, the aggregate
    view,         \* what it returned to the dashboard
    req           \* the requests served by concurrent threads: where each is
                  \* in fetch_sessions, fetch_users and get_dummy_data, and
                  \* its locals

vars == <<dbSessions, dbUsers, dummyFile, FAKE_USERS, call, frame, view, req>>

----------------------------------------------------------------------------
\* Bounds of the model.

\* longest sessions table of the cohort specification
MaxSessions == 3
\* longest sessions table of the ranking specification
MaxRankSessions == 6
\* longest sessions table of the traffic specification
MaxTrafficSessions == 3

----------------------------------------------------------------------------
\* Time.

SecondsPerHour == 60 * 60
SecondsPerDay == 24 * SecondsPerHour

\* s.timestamp.date()
DateOf(t) == t \div SecondsPerDay

\* s.timestamp.hour
HourOf(t) == (t % SecondsPerDay) \div SecondsPerHour

weekday_order ==
    <<"Monday", "Tuesday", "Wednesday", "Thursday", "Friday", "Saturday", "Sunday">>

\* date.strftime("%A") / Series.dt.day_name()
DayName(d) == weekday_order[(d % 7) + 1]

\* position of a weekday name in the Monday..Sunday category order
WeekdayIndex(name) == CHOOSE i \in 1..7 : weekday_order[i] = name

\* timedelta(hours=23, minutes=59, seconds=59)
EndOfDay == 23 * SecondsPerHour + 59 * 60 + 59

new_user_threshold_days == 14

\* days of the window substituted when a bound does not parse
DefaultWindowDays == 30

\* datetime.min and datetime.max: below and above every instant of the model
DatetimeMin == -1
DatetimeMax == 100000000

\* the [:5] of the two rankings
TopK == 5

\* a Monday; the calendar days the model's requests and sessions lie around
BaseDay == 6 * 7

\* datetime.utcnow() at the time of the requests
NowInstant == (BaseDay + 8) * SecondsPerDay + 12 * SecondsPerHour

----------------------------------------------------------------------------
\* Sequences, dicts and sorting.

Range(seq) == {seq[i] : i \in 1..Len(seq)}

RECURSIVE SumSeq(_)
SumSeq(seq) == IF seq = <<>> THEN 0 ELSE Head(seq) + SumSeq(Tail(seq))

\* the sequences over S of length at most n
SeqsUpTo(S, n) == UNION {[1..k -> S] : k \in 0..n}

\* the first n elements: seq[:n]
Take(seq, n) == SubSeq(seq, 1, IF Len(seq) < n THEN Len(seq) ELSE n)

\* a sequence given as a function of its index, as a tuple (each element is
\* evaluated once)
Tuple(f) == f \o <<>>

\* the elements of a set of integers, ascending
Ascending(S) ==
    Tuple([p \in 1..Cardinality(S) |->
        CHOOSE x \in S : Cardinality({y \in S : y < x}) = p - 1])

\* Python's sorted(seq, key=...) and a stable ORDER BY: elements with the
\* smaller key first, elements with equal keys in their original order.
\* keys[i] is the integer key of seq[i].
StableSortByKey(seq, keys) ==
    LET n == Len(seq)
        pos(i) == 1 + Cardinality({j \in 1..n :
                        keys[j] < keys[i] \/ (keys[j] = keys[i] /\ j < i)})
    IN  Tuple([p \in 1..n |-> seq[CHOOSE i \in 1..n : pos(i) = p]])

\* the distinct values of a sequence in order of first occurrence:
\* the key order of a dict filled by one pass over the sequence
FirstOccurrences(seq) ==
    LET first == {i \in 1..Len(seq) : \A j \in 1..(i - 1) : seq[j] # seq[i]}
        idx == Ascending(first)
    IN  Tuple([p \in 1..Len(idx) |-> seq[idx[p]]])

\* d = {}; for k in keys: d[k] = d.get(k, 0) + 1; list(d.items())
CountItems(keys) ==
    LET ks == FirstOccurrences(keys)
    IN  Tuple([p \in 1..Len(ks) |->
            [key |-> ks[p],
             count |-> Cardinality({i \in 1..Len(keys) : keys[i] = ks[p]})]])

\* the field of every element of a sequence of records
UserIdsOf(sessions) == {sessions[i].user_id : i \in 1..Len(sessions)}
PagesOf(sessions) == Tuple([i \in 1..Len(sessions) |-> sessions[i].page])
CountsOf(items) == Tuple([i \in 1..Len(items) |-> items[i].count])

EmptyMap == [u \in {} |-> 0]

Get(map, key, default) == IF key \in DOMAIN map THEN map[key] ELSE default

\* Optional values: Python's None, or a dict
None == [some |-> FALSE, map |-> EmptyMap]
Some(m) == [some |-> TRUE, map |-> m]

----------------------------------------------------------------------------
\* Records of the two sources.

\* a NULL referral_source or user_agent (the columns are nullable)
NULL == "<NULL>"

\* A text is the tuple of its characters; a user_agent that is None is the
\* tuple of the NULL mark, which is no character.
NoText == <<NULL>>

\* the user_agent of the visits whose device is not what is looked at
DesktopAgent == <<"W", "i", "n", "d", "o", "w", "s", " ", "N", "T">>

\* a row of the sessions table, or a SimpleNamespace of the dummy data, with
\* the user_agent a and session_time st
Visit(u, t, p, r, a, st) ==
    [user_id |-> u, timestamp |-> t, page |-> p, referral_source |-> r,
     user_agent |-> a, session_time |-> st]

\* a one-minute visit from a desktop
Session(u, t, p, r) == Visit(u, t, p, r, DesktopAgent, 60)

\* The object a query returns for row i of the table: two objects of the
\* query are never equal (db.Model defines no __eq__), which the primary key
\* id renders; a SimpleNamespace of the dummy data has no id and compares by
\* its attributes.
Row(i, s) ==
    [id |-> i, user_id |-> s.user_id, timestamp |-> s.timestamp, page |-> s.page,
     referral_source |-> s.referral_source, user_agent |-> s.user_agent,
     session_time |-> s.session_time]

\* user ids in the order the database compares them
UserOrder == <<"1", "2", "u1", "u2">>
UserRank(u) == CHOOSE i \in 1..Len(UserOrder) : UserOrder[i] = u

\* page names in ascending lexicographic order
PageOrder == <<"About", "Contact", "Explore", "Home", "Post", "Profile">>
PageRank(p) == CHOOSE i \in 1..Len(PageOrder) : PageOrder[i] = p

UserFilters == {"All", "New", "Old"}

\* a bound of the date picker: a calendar day, or a string that does not parse
Date(d) == [valid |-> TRUE, day |-> d]
Malformed == [valid |-> FALSE, day |-> 0]

----------------------------------------------------------------------------
\* data_handler: the dummy data and its cache.

NoFile == [exists |-> FALSE, sessions |-> <<>>, users |-> EmptyMap]

\* What generate_dummy_data can return, at the model's scale of two users and
\* two records: every user has a first_login within the 60 days before now,
\* every session is a user's visit between that first_login and now.  The
\* draws of two records are independent, so they can agree in every field.
DummyDatasets ==
    LET old == NowInstant - 30 * SecondsPerDay
        new == BaseDay * SecondsPerDay
        noon == BaseDay * SecondsPerDay + 12 * SecondsPerHour
    IN  { [sessions |-> << Session("2", noon, "Home", "Google"),
                           Session("1", noon, "About", "Direct") >>,
           users |-> [u \in {"1", "2"} |-> IF u = "1" THEN old ELSE new]],
          [sessions |-> << Session("1", noon + SecondsPerHour, "Home", "Other"),
                           Session("1", new, "Home", "Direct") >>,
           users |-> [u \in {"1", "2"} |-> old]],
          [sessions |-> << Session("2", noon, "About", "Direct"),
                           Session("2", noon, "About", "Direct") >>,
           users |-> [u \in {"1", "2"} |-> new]] }

\* get_dummy_data(): load the file when it exists, else generate (gen is what
\* the random generator produced) and save; either way set FAKE_USERS.
get_dummy_data(file, gen) ==
    IF file.exists
    THEN [sessions |-> file.sessions, file |-> file, fake |-> Some(file.users)]
    ELSE [sessions |-> gen.sessions,
          file |-> [exists |-> TRUE, sessions |-> gen.sessions, users |-> gen.users],
          fake |-> Some(gen.users)]

----------------------------------------------------------------------------
\* The fetchers (the same code in overall_analysis and pagewise_analysis).

InWindow(s, start_dt, end_dt) == s.timestamp >= start_dt /\ s.timestamp <= end_dt

\* Session.query.filter(...).order_by(Session.user_id, Session.timestamp).all()
\* Rows equal in both keys come in id order.
QuerySessions(start_dt, end_dt) ==
    LET table == Tuple([i \in 1..Len(dbSessions) |-> Row(i, dbSessions[i])])
        rows == SelectSeq(table, LAMBDA s : InWindow(s, start_dt, end_dt))
        keys == Tuple([i \in 1..Len(rows) |->
                    UserRank(rows[i].user_id) * DatetimeMax + rows[i].timestamp])
    IN  StableSortByKey(rows, keys)

\* fetch_sessions: the rows of the window, or, when the query raises or finds
\* nothing, the dummy sessions of the window.
fetch_sessions(start_dt, end_dt, raises, file, fake, gen) ==
    LET rows == QuerySessions(start_dt, end_dt)
        dummy == get_dummy_data(file, gen)
    IN  IF ~raises /\ rows # <<>>
        THEN [sessions |-> rows, file |-> file, fake |-> fake]
        ELSE [sessions |-> SelectSeq(dummy.sessions,
                                     LAMBDA s : InWindow(s, start_dt, end_dt)),
              file |-> dummy.file, fake |-> dummy.fake]

\* fetch_users: the first_login of the users the table holds; None when the
\* query finds no user (the function falls off its end); the FAKE_USERS
\* entries of the asked ids when the query raises.
fetch_users(user_ids, raises, file, fake, gen) ==
    LET found == user_ids \cap DOMAIN dbUsers
        dummy == IF ~fake.some \/ DOMAIN fake.map = {}
                 THEN get_dummy_data(file, gen)
                 ELSE [sessions |-> <<>>, file |-> file, fake |-> fake]
    IN  IF ~raises
        THEN [user_first |-> IF found # {}
                             THEN Some([u \in found |-> dbUsers[u]])
                             ELSE None,
              file |-> file, fake |-> fake]
        ELSE [user_first |->
                  Some([u \in user_ids \cap DOMAIN dummy.fake.map |-> dummy.fake.map[u]]),
              file |-> dummy.file, fake |-> dummy.fake]

\* the parsing of the window bounds, with the default window when it fails
ParseWindow(start_date, end_date) ==
    IF start_date.valid /\ end_date.valid
    THEN [start_dt |-> start_date.day * SecondsPerDay,
          end_dt |-> end_date.day * SecondsPerDay + EndOfDay]
    ELSE [start_dt |-> NowInstant - DefaultWindowDays * SecondsPerDay,
          end_dt |-> NowInstant]

\* the comparison with the boundary on the other side: first > threshold
IsNewStrict(first, threshold) == first > threshold

\* first >= threshold
IsNew(first, threshold) == first >= threshold

\* end_dt - timedelta(days=new_user_threshold)
Threshold(end_dt) == end_dt - new_user_threshold_days * SecondsPerDay

----------------------------------------------------------------------------
\* overall_analysis.aggregate_overall

\* the cohort filter of the overall view
FilterOverall(sessions, user_first, threshold, user_filter) ==
    IF user_filter = "New"
    THEN SelectSeq(sessions, LAMBDA s :
             IsNew(Get(user_first, s.user_id, DatetimeMax), threshold))
    ELSE IF user_filter = "Old"
    THEN SelectSeq(sessions, LAMBDA s :
             ~IsNew(Get(user_first, s.user_id, DatetimeMin), threshold))
    ELSE sessions

\* traffic = {}; for s in ...: traffic[day] = traffic.get(day, 0) + 1:
\* the dict of date -> count, in order of first occurrence
TrafficDict(sessions) ==
    CountItems(Tuple([i \in 1..Len(sessions) |-> DateOf(sessions[i].timestamp)]))

\* the rows (Date, Sessions) of a list of dict items
TrafficRowsOf(items) ==
    Tuple([p \in 1..Len(items) |-> [Date |-> items[p].key, Sessions |-> items[p].count]])

\* the traffic DataFrame without its sort_values
DailyTrafficUnsorted(sessions) == TrafficRowsOf(TrafficDict(sessions))

\* DataFrame(list(traffic.items()), ...).sort_values("Date")
DailyTraffic(sessions) ==
    LET items == TrafficDict(sessions)
    IN  TrafficRowsOf(StableSortByKey(items,
            Tuple([p \in 1..Len(items) |-> items[p].key])))

\* page_counts without the accumulation: every page that occurs counted once
PageCountsOnce(sessions) ==
    LET ks == FirstOccurrences(PagesOf(sessions))
    IN  Tuple([p \in 1..Len(ks) |-> [key |-> ks[p], count |-> 1]])

\* page_counts: the dict of page -> count, in order of first occurrence
PageCounts(sessions) == CountItems(PagesOf(sessions))

\* the descending ranking without its [:5]
TopPagesUncut(page_counts) ==
    StableSortByKey(page_counts,
        Tuple([i \in 1..Len(page_counts) |-> 0 - page_counts[i].count]))

\* dict(sorted(page_counts.items(), key=lambda x: x[1], reverse=True)[:5]):
\* a stable sort, so pages of equal count stay in their dict order
TopPages(page_counts) ==
    Take(StableSortByKey(page_counts,
             Tuple([i \in 1..Len(page_counts) |-> 0 - page_counts[i].count])), TopK)

\* dict(sorted(page_counts.items(), key=lambda x: x[1])[:5])
BottomPages(page_counts) ==
    Take(StableSortByKey(page_counts, CountsOf(page_counts)), TopK)

\* pd.Series([s.referral_source ...]).value_counts().to_dict(): value_counts
\* drops the missing values (dropna=True); a dict compares without its order
SourceDistribution(sessions) ==
    LET seen == {sessions[i].referral_source : i \in 1..Len(sessions)} \ {NULL}
    IN  [r \in seen |->
            Cardinality({i \in 1..Len(sessions) : sessions[i].referral_source = r})]

\* aggregate_overall with the answer of fetch_users (a dict) passed in;
\* page_counts is the local the two rankings are cut from
aggregate_overall(sessions, user_first, end_dt, user_filter) ==
    LET threshold == Threshold(end_dt)
        overall_new == Cardinality({u \in DOMAIN user_first :
                           IsNew(user_first[u], threshold)})
        filtered_sessions == FilterOverall(sessions, user_first, threshold, user_filter)
        page_counts == PageCounts(filtered_sessions)
    IN  [total_records |-> Len(sessions),
         distinct_users |-> Cardinality(DOMAIN user_first),
         new_users |-> overall_new,
         old_users |-> Cardinality(DOMAIN user_first) - overall_new,
         top_pages |-> TopPages(page_counts),
         bottom_pages |-> BottomPages(page_counts),
         traffic_df |-> DailyTraffic(filtered_sessions),
         filtered_sessions |-> filtered_sessions,
         source_distribution |-> SourceDistribution(sessions),
         page_counts |-> page_counts]

----------------------------------------------------------------------------
\* The traffic figures of the two callbacks.

NoFigure == [mode |-> "none", rows |-> <<>>]

\* pd.date_range(start_dt.date(), end_dt.date()) ... day_name().value_counts():
\* how often each weekday occurs in the window; a weekday that does not occur
\* has no entry
WeekdayOccurrences(start_dt, end_dt) ==
    LET names == {DayName(d) : d \in DateOf(start_dt)..DateOf(end_dt)}
    IN  [w \in names |->
            Cardinality({d \in DateOf(start_dt)..DateOf(end_dt) : DayName(d) = w})]

\* the difference of the two dates without the + 1
NumDaysExclusive(start_dt, end_dt) == DateOf(end_dt) - DateOf(start_dt)

\* (end_dt.date() - start_dt.date()).days + 1
NumDays(start_dt, end_dt) == DateOf(end_dt) - DateOf(start_dt) + 1

WeekdaySessions(sessions, w) ==
    Cardinality({i \in 1..Len(sessions) : DayName(DateOf(sessions[i].timestamp)) = w})

HourSessions(sessions, h) ==
    Cardinality({i \in 1..Len(sessions) : HourOf(sessions[i].timestamp) = h})

\* update_overall, mode "weekly": one row per weekday that has sessions,
\* sorted Monday to Sunday
OverallWeekly(sessions, start_dt, end_dt) ==
    LET occ == WeekdayOccurrences(start_dt, end_dt)
        seen == {WeekdayIndex(DayName(DateOf(sessions[i].timestamp))) :
                    i \in 1..Len(sessions)}
        order == Ascending(seen)
    IN  Tuple([p \in 1..Len(order) |->
            LET w == weekday_order[order[p]]
                n == WeekdaySessions(sessions, w)
            IN  [Weekday |-> w, Sessions |-> n, AvgSessions |-> <<n, Get(occ, w, 1)>>]])

\* modes "daily" of both callbacks: one row per hour that has sessions,
\* in the ascending order of groupby
HourlyTraffic(sessions, start_dt, end_dt) ==
    LET hours == Ascending({HourOf(sessions[i].timestamp) : i \in 1..Len(sessions)})
    IN  Tuple([p \in 1..Len(hours) |->
            LET n == HourSessions(sessions, hours[p])
            IN  [Hour |-> hours[p], Sessions |-> n,
                 AvgSessions |-> <<n, NumDays(start_dt, end_dt)>>]])

\* the traffic_fig of update_overall
OverallTrafficFig(data, traffic_mode, start_dt, end_dt) ==
    IF traffic_mode = "overall"
    THEN [mode |-> "overall", rows |-> data.traffic_df]
    ELSE IF traffic_mode = "weekly" /\ data.filtered_sessions # <<>>
    THEN [mode |-> "weekly",
          rows |-> OverallWeekly(data.filtered_sessions, start_dt, end_dt)]
    ELSE IF traffic_mode = "daily" /\ data.filtered_sessions # <<>>
    THEN [mode |-> "daily",
          rows |-> HourlyTraffic(data.filtered_sessions, start_dt, end_dt)]
    ELSE NoFigure

----------------------------------------------------------------------------
\* The callbacks.

NoData ==
    [total_records |-> 0, distinct_users |-> 0, new_users |-> 0, old_users |-> 0,
     top_pages |-> <<>>, bottom_pages |-> <<>>, traffic_df |-> <<>>,
     filtered_sessions |-> <<>>, source_distribution |-> EmptyMap,
     page_counts |-> <<>>]

TrafficModes == {"overall", "weekly", "daily"}

\* update_overall.  sessions_raise and users_raise say whether the session and
\* the user query raise; gen is what generate_dummy_data draws if it runs.
\* The only exception of the body is user_first = None at line 68.
update_overall(start_date, end_date, user_filter, traffic_mode, sessions_raise, users_raise, gen) ==
    /\ call.handler = "none"
    /\ \E w \in {ParseWindow(start_date, end_date)} :
       \E fs \in {fetch_sessions(w.start_dt, w.end_dt, sessions_raise, dummyFile, FAKE_USERS, gen)} :
       \E fu \in {fetch_users(UserIdsOf(fs.sessions), users_raise, fs.file, fs.fake, gen)} :
       \E data \in {IF fu.user_first.some
                    THEN aggregate_overall(fs.sessions, fu.user_first.map, w.end_dt, user_filter)
                    ELSE NoData} :
        /\ dummyFile' = fu.file
        /\ FAKE_USERS' = fu.fake
        /\ call' = [handler |-> "update_overall", start_date |-> start_date,
                    end_date |-> end_date, page |-> "", user_filter |-> user_filter,
                    traffic_mode |-> traffic_mode,
                    sessions_raise |-> sessions_raise, users_raise |-> users_raise]
        /\ frame' = [start_dt |-> w.start_dt, end_dt |-> w.end_dt,
                     threshold |-> Threshold(w.end_dt),
                     sessions |-> fs.sessions, user_first |-> fu.user_first,
                     filtered_sessions |-> data.filtered_sessions,
                     page_counts |-> data.page_counts]
        /\ view' = IF fu.user_first.some
                   THEN [kind |-> "overall",
                         total_records |-> data.total_records,
                         distinct_users |-> data.distinct_users,
                         new_users |-> data.new_users,
                         old_users |-> data.old_users,
                         traffic_fig |-> OverallTrafficFig(data, traffic_mode,
                                                           w.start_dt, w.end_dt),
                         top_pages |-> data.top_pages,
                         bottom_pages |-> data.bottom_pages,
                         source_distribution |-> data.source_distribution]
                   ELSE [kind |-> "error"]
        /\ UNCHANGED <<dbSessions, dbUsers, req>>

----------------------------------------------------------------------------
\* pagewise_analysis

\* the cohort filter of the per-page view
FilterPagewise(page_sessions, user_first, threshold, user_filter) ==
    IF user_filter = "New"
    THEN SelectSeq(page_sessions, LAMBDA s :
             IsNew(Get(user_first, s.user_id, DatetimeMin), threshold))
    ELSE IF user_filter = "Old"
    THEN SelectSeq(page_sessions, LAMBDA s :
             ~IsNew(Get(user_first, s.user_id, DatetimeMax), threshold))
    ELSE page_sessions

\* the sessions of the page, before the cohort filter
PageSessions(sessions, page) == SelectSeq(sessions, LAMBDA s : s.page = page)

\* DataFrame(sorted(traffic.items()), ...): the items sorted as tuples, by
\* the date and then by the count
PagewiseDailyTraffic(page_sessions) ==
    LET items == TrafficDict(page_sessions)
    IN  TrafficRowsOf(StableSortByKey(items,
            Tuple([p \in 1..Len(items) |->
                items[p].key * (Len(page_sessions) + 1) + items[p].count])))

\* aggregate_pagewise with the answer of fetch_users passed in (the empty dict
\* stands for a None that is never read)
aggregate_pagewise(sessions, page, user_first, end_dt, user_filter) ==
    LET page_sessions == FilterPagewise(PageSessions(sessions, page), user_first,
                                        Threshold(end_dt), user_filter)
    IN  [total_sessions |-> Len(page_sessions),
         traffic_df |-> PagewiseDailyTraffic(page_sessions),
         page_sessions |-> page_sessions,
         user_first |-> user_first]

\* update_pagewise, lines 340-343: the split of the users of the filtered
\* page sessions
PagewiseNewUsers(page_sessions, user_first, threshold) ==
    Cardinality({u \in UserIdsOf(page_sessions) :
        IsNew(Get(user_first, u, DatetimeMin), threshold)})

PagewiseOldUsers(page_sessions, user_first, threshold) ==
    Cardinality(UserIdsOf(page_sessions))
        - PagewiseNewUsers(page_sessions, user_first, threshold)

\* update_pagewise, mode "weekly": the seven weekdays, Monday to Sunday,
\* those without sessions with 0
PagewiseWeekly(sessions, start_dt, end_dt) ==
    LET occ == WeekdayOccurrences(start_dt, end_dt)
    IN  Tuple([p \in 1..7 |->
            LET w == weekday_order[p]
                n == WeekdaySessions(sessions, w)
            IN  [Weekday |-> w, Sessions |-> n, AvgSessions |-> <<n, Get(occ, w, 1)>>]])

\* the traffic_fig of update_pagewise
PagewiseTrafficFig(data, traffic_mode, start_dt, end_dt) ==
    IF traffic_mode = "overall"
    THEN [mode |-> "overall", rows |-> data.traffic_df]
    ELSE IF traffic_mode = "weekly" /\ data.page_sessions # <<>>
    THEN [mode |-> "weekly",
          rows |-> PagewiseWeekly(data.page_sessions, start_dt, end_dt)]
    ELSE IF traffic_mode = "daily" /\ data.page_sessions # <<>>
    THEN [mode |-> "daily",
          rows |-> HourlyTraffic(data.page_sessions, start_dt, end_dt)]
    ELSE NoFigure

\* Texts: str.lower() and the substring test of "in".

UpperCase ==
    <<"A", "B", "C", "D", "E", "F", "G", "H", "I", "J", "K", "L", "M",
      "N", "O", "P", "Q", "R", "S", "T", "U", "V", "W", "X", "Y", "Z">>
LowerCase ==
    <<"a", "b", "c", "d", "e", "f", "g", "h", "i", "j", "k", "l", "m",
      "n", "o", "p", "q", "r", "s", "t", "u", "v", "w", "x", "y", "z">>

\* c.lower() of one character
LowerChar(c) ==
    IF \E i \in 1..Len(UpperCase) : UpperCase[i] = c
    THEN LowerCase[CHOOSE i \in 1..Len(UpperCase) : UpperCase[i] = c]
    ELSE c

\* ua.lower()
ToLower(text) == Tuple([i \in 1..Len(text) |-> LowerChar(text[i])])

\* word in text
Contains(text, word) ==
    \E k \in 0..(Len(text) - Len(word)) :
        \A j \in 1..Len(word) : text[k + j] = word[j]

MobileWords == {<<"i", "p", "h", "o", "n", "e">>, <<"a", "n", "d", "r", "o", "i", "d">>}
DesktopWords == {<<"w", "i", "n", "d", "o", "w", "s">>, <<"m", "a", "c">>, <<"l", "i", "n", "u", "x">>}

\* classify_device(ua), for a ua that is a str
classify_device(ua) ==
    LET low == ToLower(ua)
    IN  IF \E w \in MobileWords : Contains(low, w) THEN "Mobile"
        ELSE IF \E w \in DesktopWords : Contains(low, w) THEN "Desktop"
        ELSE "Other"

\* ua.lower() raises AttributeError when the user_agent is None
DeviceRaises(page_sessions) ==
    \E i \in 1..Len(page_sessions) : page_sessions[i].user_agent = NoText

\* pd.Series([classify_device(s.user_agent) ...]).value_counts(): the labels
\* that occur, each with its count
DeviceSeries(page_sessions) ==
    LET labels == Tuple([i \in 1..Len(page_sessions) |->
                      classify_device(page_sessions[i].user_agent)])
    IN  [l \in Range(labels) |-> Cardinality({i \in 1..Len(labels) : labels[i] = l})]

----------------------------------------------------------------------------
\* The page summary of update_pagewise.  A quotient that is evaluated is the
\* pair <<numerator, denominator>>; <<>> stands for one that is not.

\* sum(s.session_time ...) / total_visits if total_visits else 0
AvgTime(page_sessions) ==
    IF Len(page_sessions) # 0
    THEN <<SumSeq(Tuple([i \in 1..Len(page_sessions) |-> page_sessions[i].session_time])),
           Len(page_sessions)>>
    ELSE <<>>

\* sum(1 for s in page_sessions if s == page_sessions[-1]) if total_visits else 0
Exits(page_sessions) ==
    IF Len(page_sessions) # 0
    THEN Cardinality({i \in 1..Len(page_sessions) :
             page_sessions[i] = page_sessions[Len(page_sessions)]})
    ELSE 0

\* the bounce rate without its guard
BounceRateUnguarded(page_sessions) == <<Exits(page_sessions), Len(page_sessions)>>

\* exits / total_visits * 100 if total_visits else 0
BounceRate(page_sessions) ==
    IF Len(page_sessions) # 0
    THEN <<Exits(page_sessions), Len(page_sessions)>>
    ELSE <<>>

\* the sessions of the seven days that end on the day last
WeekTotal(page_sessions, last) ==
    Cardinality({i \in 1..Len(page_sessions) :
        DateOf(page_sessions[i].timestamp) \in (last - 6)..last})

\* this week against last week: diff is evaluated when last_total is not 0,
\* else the text is "No data for last week"
WeekChange(page_sessions, end_dt) ==
    LET today == DateOf(end_dt)
        this_total == WeekTotal(page_sessions, today)
        last_total == WeekTotal(page_sessions, today - 7)
    IN  [this_total |-> this_total, last_total |-> last_total,
         baseline |-> last_total # 0,
         diff |-> IF last_total # 0 THEN <<this_total - last_total, last_total>>
                  ELSE <<>>]

----------------------------------------------------------------------------
\* build_sankey_figure

\* the pages random.choice draws from
KnownPages ==
    {"Home", "Explore", "Post", "My Network", "Notifications",
     "Profile", "Settings", "About", "Contact"}

\* the labels a figure can have, as sorted() orders them
LabelOrder ==
    <<"About", "Contact", "Direct", "Explore", "Facebook", "Google", "Home",
      "LinkedIn", "My Network", "Notifications", "Other", "Post", "Profile",
      "Settings", "Twitter">>
LabelRank(l) == CHOOSE i \in 1..Len(LabelOrder) : LabelOrder[i] = l

EmptyGraph == [kind |-> "empty", labels |-> <<>>, links |-> <<>>]
SankeyRaises == [kind |-> "raises", labels |-> <<>>, links |-> <<>>]

\* user_paths: per session the pair (referral_source, first draw), then the
\* pair (first draw, second draw); n_pages is 3
UserPaths(page_sessions, draws) ==
    Tuple([k \in 1..(2 * Len(page_sessions)) |->
        LET i == (k + 1) \div 2
        IN  IF k % 2 = 1
            THEN <<page_sessions[i].referral_source, draws[i][1]>>
            ELSE <<draws[i][1], draws[i][2]>>])

\* build_sankey_figure(page_sessions) when random.choice answers draws[i][1]
\* and draws[i][2] for session i.  sorted() raises TypeError on a None among
\* the labels.  A link is (source index, target index, value), indices from 0.
build_sankey_figure(page_sessions, draws) ==
    LET user_paths == UserPaths(page_sessions, draws)
        pair_counts == CountItems(user_paths)
        found == {user_paths[k][1] : k \in 1..Len(user_paths)}
                     \cup {user_paths[k][2] : k \in 1..Len(user_paths)}
        ranks == Ascending({LabelRank(l) : l \in found \ {NULL}})
        labels == Tuple([p \in 1..Len(ranks) |-> LabelOrder[ranks[p]]])
        idx(l) == (CHOOSE p \in 1..Len(labels) : labels[p] = l) - 1
    IN  IF user_paths = <<>> THEN EmptyGraph
        ELSE IF NULL \in found THEN SankeyRaises
        ELSE [kind |-> "graph",
              labels |-> labels,
              links |-> Tuple([p \in 1..Len(pair_counts) |->
                  [source |-> idx(pair_counts[p].key[1]),
                   target |-> idx(pair_counts[p].key[2]),
                   value |-> pair_counts[p].count]])]

----------------------------------------------------------------------------
\* update_pagewise.  With no page it asks for one.  The body raises, and the
\* callback returns the error outputs, when fetch_users answered None and a
\* session of the page reads it (line 79, 81 or 342), when a session of the
\* page has no user_agent (line 416) and when build_sankey_figure raises.
\* draws are the answers of random.choice in build_sankey_figure.
update_pagewise(start_date, end_date, page, user_filter, traffic_mode, sessions_raise, users_raise, gen, draws) ==
    /\ call.handler = "none"
    /\ call' = [handler |-> "update_pagewise", start_date |-> start_date,
                end_date |-> end_date, page |-> page, user_filter |-> user_filter,
                traffic_mode |-> traffic_mode,
                sessions_raise |-> sessions_raise, users_raise |-> users_raise]
    /\ \E w \in {ParseWindow(start_date, end_date)} :
       \E threshold \in {Threshold(w.end_dt)} :
       IF page = ""
       THEN /\ view' = [kind |-> "select_page"]
            /\ frame' = [start_dt |-> w.start_dt, end_dt |-> w.end_dt,
                         threshold |-> threshold,
                         sessions |-> <<>>, user_first |-> None,
                         filtered_sessions |-> <<>>, page_counts |-> <<>>]
            /\ UNCHANGED <<dummyFile, FAKE_USERS>>
       ELSE \E fs \in {fetch_sessions(w.start_dt, w.end_dt, sessions_raise, dummyFile, FAKE_USERS, gen)} :
            \E unfiltered \in {PageSessions(fs.sessions, page)} :
            \E fu \in {fetch_users(UserIdsOf(unfiltered), users_raise, fs.file, fs.fake, gen)} :
            \E data \in {aggregate_pagewise(fs.sessions, page, fu.user_first.map, w.end_dt, user_filter)} :
            \E sankey_fig \in {build_sankey_figure(data.page_sessions, draws)} :
            \E ok \in {/\ fu.user_first.some \/ unfiltered = <<>>
                       /\ ~DeviceRaises(data.page_sessions)
                       /\ sankey_fig.kind # "raises"} :
            /\ dummyFile' = fu.file
            /\ FAKE_USERS' = fu.fake
            /\ frame' = [start_dt |-> w.start_dt, end_dt |-> w.end_dt,
                         threshold |-> threshold,
                         sessions |-> fs.sessions, user_first |-> fu.user_first,
                         filtered_sessions |-> IF ok THEN data.page_sessions ELSE <<>>,
                         page_counts |-> <<>>]
            /\ view' = IF ok
                       THEN [kind |-> "pagewise",
                             total_visits |-> data.total_sessions,
                             avg_time |-> AvgTime(data.page_sessions),
                             exits |-> Exits(data.page_sessions),
                             bounce_rate |-> BounceRate(data.page_sessions),
                             change |-> WeekChange(data.page_sessions, w.end_dt),
                             dev_series |-> DeviceSeries(data.page_sessions),
                             sankey_fig |-> sankey_fig,
                             new_users |-> PagewiseNewUsers(data.page_sessions,
                                               data.user_first, threshold),
                             old_users |-> PagewiseOldUsers(data.page_sessions,
                                               data.user_first, threshold),
                             traffic_fig |-> PagewiseTrafficFig(data, traffic_mode,
                                                 w.start_dt, w.end_dt)]
                       ELSE [kind |-> "error"]
    /\ UNCHANGED <<dbSessions, dbUsers, req>>

\* sorted({s.page for s in sessions})
SortedPages(sessions) ==
    LET ranks == Ascending({PageRank(sessions[i].page) : i \in 1..Len(sessions)})
    IN  Tuple([p \in 1..Len(ranks) |-> PageOrder[ranks[p]]])

\* update_page_dropdown: the pages of the window, and "About" or the first
\* of them as the selection ("" is None)
update_page_dropdown(start_date, end_date, sessions_raise, gen) ==
    /\ call.handler = "none"
    /\ \E w \in {ParseWindow(start_date, end_date)} :
       \E fs \in {fetch_sessions(w.start_dt, w.end_dt, sessions_raise, dummyFile, FAKE_USERS, gen)} :
       \E pages \in {SortedPages(fs.sessions)} :
        /\ dummyFile' = fs.file
        /\ FAKE_USERS' = fs.fake
        /\ call' = [handler |-> "update_page_dropdown", start_date |-> start_date,
                    end_date |-> end_date, page |-> "", user_filter |-> "All",
                    traffic_mode |-> "overall",
                    sessions_raise |-> sessions_raise, users_raise |-> FALSE]
        /\ frame' = [start_dt |-> w.start_dt, end_dt |-> w.end_dt,
                     threshold |-> Threshold(w.end_dt),
                     sessions |-> fs.sessions, user_first |-> None,
                     filtered_sessions |-> fs.sessions, page_counts |-> <<>>]
        /\ view' = [kind |-> "dropdown", options |-> pages,
                    value |-> IF "About" \in Range(pages) THEN "About"
                              ELSE IF pages # <<>> THEN pages[1] ELSE ""]
        /\ UNCHANGED <<dbSessions, dbUsers, req>>

----------------------------------------------------------------------------
\* The state before the first callback.

NoCall ==
    [handler |-> "none", start_date |-> Malformed, end_date |-> Malformed,
     page |-> "", user_filter |-> "All", traffic_mode |-> "overall",
     sessions_raise |-> FALSE, users_raise |-> FALSE]

NoFrame ==
    [start_dt |-> 0, end_dt |-> 0, threshold |-> 0, sessions |-> <<>>,
     user_first |-> None, filtered_sessions |-> <<>>, page_counts |-> <<>>]

\* the threads of the server; a request that has not started
Requests == {1, 2}
NoDataset == [sessions |-> <<>>, users |-> EmptyMap]
NoResult == [kind |-> "none", total_records |-> 0, distinct_users |-> 0,
             new_users |-> 0, old_users |-> 0]
Waiting ==
    [pc |-> "start", ret |-> "none", loaded |-> FALSE, data |-> NoDataset,
     got |-> NoDataset, sessions |-> <<>>, user_first |-> EmptyMap, result |-> NoResult]

Start ==
    /\ req = [r \in Requests |-> Waiting]
    /\ dummyFile = NoFile
    /\ FAKE_USERS = None
    /\ call = NoCall
    /\ frame = NoFrame
    /\ view = [kind |-> "none"]

\* The callback has returned: the dashboard has its outputs, the locals are
\* gone, the next callback starts afresh.  The module state of data_handler
\* stays.
Return ==
    /\ call.handler # "none"
    /\ call' = NoCall
    /\ frame' = NoFrame
    /\ view' = [kind |-> "none"]
    /\ UNCHANGED <<dbSessions, dbUsers, dummyFile, FAKE_USERS, req>>

Noon == BaseDay * SecondsPerDay + 12 * SecondsPerHour

\* random.choice answers "Home", then "About", for every session
FixedDraws == [i \in 1..(MaxSessions + MaxTrafficSessions) |-> <<"Home", "About">>]

----------------------------------------------------------------------------
\* Spec: the cohort split.  Sessions of two users on two pages; each user is
\* unknown to the users table or has a first_login just below, at, or just
\* above the threshold of a window that ends on BaseDay.

CohortUsers == {"u1", "u2"}
CohortPages == {"Home", "About"}
CohortRows == {Session(u, Noon, p, "Google") : u \in CohortUsers, p \in CohortPages}

BaseThreshold == Threshold(BaseDay * SecondsPerDay + EndOfDay)
FirstLogins == {BaseThreshold - 1, BaseThreshold, BaseThreshold + 1}

\* the users table: any of the users may have no row (the dashboard only reads
\* the table, and the foreign key of sessions.user_id is the database's to
\* enforce)
UserTables(users, logins) == UNION {[known -> logins] : known \in SUBSET users}

Init ==
    /\ dbSessions \in SeqsUpTo(CohortRows, MaxSessions)
    /\ dbUsers \in UserTables(CohortUsers, FirstLogins)
    /\ Start

Next ==
    \/ \E uf \in UserFilters, sr \in BOOLEAN, ur \in BOOLEAN, gen \in DummyDatasets :
          update_overall(Date(BaseDay), Date(BaseDay), uf, "overall", sr, ur, gen)
    \/ \E page \in CohortPages \cup {""}, uf \in UserFilters,
          sr \in BOOLEAN, ur \in BOOLEAN, gen \in DummyDatasets :
          update_pagewise(Date(BaseDay), Date(BaseDay), page, uf, "overall", sr, ur, gen,
                          FixedDraws)
    \/ \E sr \in BOOLEAN, gen \in DummyDatasets :
          update_page_dropdown(Date(BaseDay), Date(BaseDay), sr, gen)
    \/ Return

Spec == Init /\ [][Next]_vars

----------------------------------------------------------------------------
\* SpecRank: the page ranking and the referral distribution.  Six kinds of
\* visit, one per page: the first three pages are visited by u1 (a new
\* user), the last three by u2 (an old one); two come from Google, two from
\* Direct, two carry no referral_source.

RankRows ==
    { Session("u1", Noon, "About", "Google"),
      Session("u1", Noon, "Contact", NULL),
      Session("u1", Noon, "Explore", "Direct"),
      Session("u2", Noon, "Home", "Google"),
      Session("u2", Noon, "Post", NULL),
      Session("u2", Noon, "Profile", "Direct") }

RankUsers == [u \in CohortUsers |-> IF u = "u1" THEN BaseThreshold ELSE BaseThreshold - 1]

InitRank ==
    /\ dbSessions \in SeqsUpTo(RankRows, MaxRankSessions)
    /\ dbUsers = RankUsers
    /\ Start

\* generate_dummy_data runs only when the sessions query finds nothing and no
\* file is cached; otherwise its draw is never read
DrawsFor(rows, file) ==
    IF rows = <<>> /\ ~file.exists
    THEN DummyDatasets
    ELSE {CHOOSE gen \in DummyDatasets : TRUE}

NextRank ==
    \/ \E uf \in UserFilters, gen \in DrawsFor(dbSessions, dummyFile) :
          update_overall(Date(BaseDay), Date(BaseDay), uf, "overall", FALSE, FALSE, gen)
    \/ Return

SpecRank == InitRank /\ [][NextRank]_vars

----------------------------------------------------------------------------
\* SpecTraffic: the traffic series.  Visits of one new user to one page on
\* two Mondays and a Tuesday, at two hours of the day; windows of 0, 1, 2 and
\* 8 days from BaseDay, and the default window of a bound that does not
\* parse.

TrafficInstants ==
    { BaseDay * SecondsPerDay + 9 * SecondsPerHour,
      BaseDay * SecondsPerDay + 17 * SecondsPerHour + 30 * 60,
      (BaseDay + 1) * SecondsPerDay + 9 * SecondsPerHour,
      (BaseDay + 7) * SecondsPerDay + 9 * SecondsPerHour + 59 }

TrafficRows == {Session("u1", t, "Home", "Google") : t \in TrafficInstants}

TrafficWindows ==
    {<<Date(BaseDay), Date(e)>> : e \in {BaseDay - 1, BaseDay, BaseDay + 1, BaseDay + 7}}
        \cup {<<Malformed, Date(BaseDay)>>, <<Date(BaseDay), Malformed>>}

InitTraffic ==
    /\ dbSessions \in SeqsUpTo(TrafficRows, MaxTrafficSessions)
    /\ dbUsers = [u \in {"u1"} |-> BaseThreshold + SecondsPerDay]
    /\ Start

NextTraffic ==
    \/ \E w \in TrafficWindows, uf \in {"All", "Old"}, tm \in TrafficModes,
          ur \in BOOLEAN, gen \in DummyDatasets :
          update_overall(w[1], w[2], uf, tm, FALSE, ur, gen)
    \/ \E w \in TrafficWindows, uf \in {"All", "Old"}, tm \in TrafficModes,
          ur \in BOOLEAN, gen \in DummyDatasets :
          update_pagewise(w[1], w[2], "Home", uf, tm, FALSE, ur, gen, FixedDraws)
    \/ \E w \in TrafficWindows, gen \in DummyDatasets :
          update_page_dropdown(w[1], w[2], FALSE, gen)
    \/ Return

SpecTraffic == InitTraffic /\ [][NextTraffic]_vars

----------------------------------------------------------------------------
\* SpecCalendar: the calendar series.  Visits of a new and an old user to
\* one page on two days; the query orders them by user and then by time, so
\* the dates reach the aggregation out of order.

\* longest sessions table of the calendar specification
MaxCalendarSessions == 3

CalendarRows ==
    {Session(u, (BaseDay + d) * SecondsPerDay + 9 * SecondsPerHour, "Home", "Google") :
        u \in CohortUsers, d \in 0..1}

InitCalendar ==
    /\ dbSessions \in SeqsUpTo(CalendarRows, MaxCalendarSessions)
    /\ dbUsers = RankUsers
    /\ Start

NextCalendar ==
    \/ \E uf \in UserFilters, gen \in DummyDatasets :
          update_overall(Date(BaseDay), Date(BaseDay + 1), uf, "overall", FALSE, FALSE, gen)
    \/ \E uf \in UserFilters, gen \in DummyDatasets :
          update_pagewise(Date(BaseDay), Date(BaseDay + 1), "Home", uf, "overall",
                          FALSE, FALSE, gen, FixedDraws)
    \/ Return

SpecCalendar == InitCalendar /\ [][NextCalendar]_vars

----------------------------------------------------------------------------
\* SpecDevice: the device chart.  Visits of one user to one page with user
\* agents in either case, with a mobile and a desktop word together, with
\* none of the words, empty, and missing.

\* longest sessions table of the device specification
MaxDeviceSessions == 2

Agent_iPhone == <<"i", "P", "h", "o", "n", "e", " ", "O", "S", " ", "1", "4">>
Agent_ANDROID == <<"A", "N", "D", "R", "O", "I", "D", " ", "1", "0">>
Agent_LinuxAndroid == <<"L", "i", "n", "u", "x", ";", " ", "A", "n", "d", "r", "o", "i", "d">>
Agent_Macintosh == <<"M", "a", "c", "i", "n", "t", "o", "s", "h">>
Agent_curl == <<"c", "u", "r", "l", "/", "8">>
Agent_Empty == <<>>

DeviceAgents ==
    {Agent_iPhone, Agent_ANDROID, Agent_LinuxAndroid, Agent_Macintosh,
     DesktopAgent, Agent_curl, Agent_Empty, NoText}

DeviceRows == {Visit("u1", Noon, "Home", "Google", a, 60) : a \in DeviceAgents}

\* every user of the table's and of the dummy sessions has a row
AllUsers == [u \in Range(UserOrder) |-> BaseThreshold]

InitDevice ==
    /\ dbSessions \in SeqsUpTo(DeviceRows, MaxDeviceSessions)
    /\ dbUsers = AllUsers
    /\ Start

NextDevice ==
    \/ \E uf \in UserFilters, gen \in DummyDatasets :
          update_pagewise(Date(BaseDay), Date(BaseDay), "Home", uf, "overall",
                          FALSE, FALSE, gen, FixedDraws)
    \/ Return

SpecDevice == InitDevice /\ [][NextDevice]_vars

----------------------------------------------------------------------------
\* SpecSankey: the journey figure.  Visits of one user to one page, from two
\* referral sources or with none; random.choice draws among three of its
\* pages.

\* longest sessions table of the journey specification
MaxSankeySessions == 2

SankeyRows == {Session("u1", Noon, "Home", r) : r \in {"Google", "Direct", NULL}}

DrawPages == {"About", "Home", "Settings"}

InitSankey ==
    /\ dbSessions \in SeqsUpTo(SankeyRows, MaxSankeySessions)
    /\ dbUsers = AllUsers
    /\ Start

NextSankey ==
    \/ \E gen \in DummyDatasets, draws \in [1..MaxSankeySessions -> DrawPages \X DrawPages] :
          update_pagewise(Date(BaseDay), Date(BaseDay), "Home", "All", "overall",
                          FALSE, FALSE, gen, draws)
    \/ Return

SpecSankey == InitSankey /\ [][NextSankey]_vars

----------------------------------------------------------------------------
\* SpecConcurrent: two update_overall requests for the day BaseDay, served by
\* two threads of the server while the database cannot be reached (both
\* queries raise, as they do when no database is set up).  A thread can be
\* preempted between any two statements of get_dummy_data and between the
\* calls of the fetchers; each action below is one such statement.

RequestStart == BaseDay * SecondsPerDay
RequestEnd == BaseDay * SecondsPerDay + EndOfDay

\* open(DUMMY_DATA_FILE, "wb") has run and pickle.dump has not: the file
\* exists and holds nothing, pickle.load of it raises EOFError
TruncatedFile == [exists |-> TRUE, sessions |-> <<>>, users |-> EmptyMap]

FileOf(d) == [exists |-> TRUE, sessions |-> d.sessions, users |-> d.users]

\* fetch_sessions: the query raises, the except branch calls get_dummy_data
BeginFetchSessions(r) ==
    /\ req[r].pc = "start"
    /\ req' = [req EXCEPT ![r].pc = "gd_exists", ![r].ret = "sessions"]
    /\ UNCHANGED <<dbSessions, dbUsers, dummyFile, FAKE_USERS, call, frame, view>>

\* get_dummy_data: if os.path.exists(DUMMY_DATA_FILE)
GdExists(r) ==
    /\ req[r].pc = "gd_exists"
    /\ req' = [req EXCEPT ![r].pc = IF dummyFile.exists THEN "gd_load" ELSE "gd_generate"]
    /\ UNCHANGED <<dbSessions, dbUsers, dummyFile, FAKE_USERS, call, frame, view>>

\* sessions, fake_users = pickle.load(f); the EOFError of a truncated file
\* leaves fetch_sessions or fetch_users from inside its except branch and is
\* caught by the callback, which returns the error outputs
GdLoad(r) ==
    /\ req[r].pc = "gd_load"
    /\ req' = IF dummyFile = TruncatedFile
               THEN [req EXCEPT ![r].pc = "done", ![r].result.kind = "error"]
               ELSE [req EXCEPT ![r].pc = "gd_set_fake", ![r].loaded = TRUE,
                                ![r].data = [sessions |-> dummyFile.sessions,
                                             users |-> dummyFile.users]]
    /\ UNCHANGED <<dbSessions, dbUsers, dummyFile, FAKE_USERS, call, frame, view>>

\* sessions, fake_users = generate_dummy_data(n_records, n_users)
GdGenerate(r) ==
    /\ req[r].pc = "gd_generate"
    /\ \E gen \in DummyDatasets :
          req' = [req EXCEPT ![r].pc = "gd_set_fake", ![r].loaded = FALSE,
                             ![r].data = gen]
    /\ UNCHANGED <<dbSessions, dbUsers, dummyFile, FAKE_USERS, call, frame, view>>

\* FAKE_USERS = fake_users
GdSetFake(r) ==
    /\ req[r].pc = "gd_set_fake"
    /\ FAKE_USERS' = Some(req[r].data.users)
    /\ req' = [req EXCEPT ![r].pc = IF req[r].loaded THEN "gd_return" ELSE "gd_open"]
    /\ UNCHANGED <<dbSessions, dbUsers, dummyFile, call, frame, view>>

\* with open(DUMMY_DATA_FILE, "wb") as f
GdOpen(r) ==
    /\ req[r].pc = "gd_open"
    /\ dummyFile' = TruncatedFile
    /\ req' = [req EXCEPT ![r].pc = "gd_dump"]
    /\ UNCHANGED <<dbSessions, dbUsers, FAKE_USERS, call, frame, view>>

\* pickle.dump((sessions, fake_users), f)
GdDump(r) ==
    /\ req[r].pc = "gd_dump"
    /\ dummyFile' = FileOf(req[r].data)
    /\ req' = [req EXCEPT ![r].pc = "gd_return"]
    /\ UNCHANGED <<dbSessions, dbUsers, FAKE_USERS, call, frame, view>>

\* return sessions: to fetch_sessions, which keeps those of the window and
\* returns them to the callback, or to fetch_users, which drops them
GdReturn(r) ==
    /\ req[r].pc = "gd_return"
    /\ req' = IF req[r].ret = "sessions"
               THEN [req EXCEPT ![r].pc = "fetch_users",
                                ![r].got = req[r].data,
                                ![r].sessions = SelectSeq(req[r].data.sessions,
                                    LAMBDA s : InWindow(s, RequestStart, RequestEnd))]
               ELSE [req EXCEPT ![r].pc = "read_fake"]
    /\ UNCHANGED <<dbSessions, dbUsers, dummyFile, FAKE_USERS, call, frame, view>>

\* fetch_users: the query raises; if not data_handler.FAKE_USERS:
\* data_handler.get_dummy_data()
BeginFetchUsers(r) ==
    /\ req[r].pc = "fetch_users"
    /\ req' = IF ~FAKE_USERS.some \/ DOMAIN FAKE_USERS.map = {}
               THEN [req EXCEPT ![r].pc = "gd_exists", ![r].ret = "users"]
               ELSE [req EXCEPT ![r].pc = "read_fake"]
    /\ UNCHANGED <<dbSessions, dbUsers, dummyFile, FAKE_USERS, call, frame, view>>

\* return {uid: data_handler.FAKE_USERS[uid].first_login for uid in user_ids
\* if uid in data_handler.FAKE_USERS}, and the rest of aggregate_overall and
\* update_overall, which touch nothing shared
ReadFakeUsers(r) ==
    /\ req[r].pc = "read_fake"
    /\ \E user_first \in {[u \in UserIdsOf(req[r].sessions) \cap DOMAIN FAKE_USERS.map |->
                               FAKE_USERS.map[u]]} :
       \E data \in {aggregate_overall(req[r].sessions, user_first, RequestEnd, "All")} :
          req' = [req EXCEPT ![r].pc = "done",
                             ![r].user_first = user_first,
                             ![r].result = [kind |-> "overall",
                                            total_records |-> data.total_records,
                                            distinct_users |-> data.distinct_users,
                                            new_users |-> data.new_users,
                                            old_users |-> data.old_users]]
    /\ UNCHANGED <<dbSessions, dbUsers, dummyFile, FAKE_USERS, call, frame, view>>

InitConcurrent ==
    /\ dbSessions = <<>>
    /\ dbUsers = EmptyMap
    /\ Start

NextConcurrent ==
    \E r \in Requests :
        \/ BeginFetchSessions(r)
        \/ GdExists(r)
        \/ GdLoad(r)
        \/ GdGenerate(r)
        \/ GdSetFake(r)
        \/ GdOpen(r)
        \/ GdDump(r)
        \/ GdReturn(r)
        \/ BeginFetchUsers(r)
        \/ ReadFakeUsers(r)

SpecConcurrent == InitConcurrent /\ [][NextConcurrent]_vars

----------------------------------------------------------------------------
\* What the claims speak of, read off the state a callback leaves.

Computed == view.kind \in {"overall", "pagewise"}

\* the sessions the cohort filter of the view is applied to
Candidates ==
    IF view.kind = "pagewise"
    THEN SelectSeq(frame.sessions, LAMBDA s : s.page = call.page)
    ELSE frame.sessions

\* the answer of the cohort source, as a dict
Cohort == frame.user_first.map

\* the window end instant minus 14 days
ClaimedThreshold ==
    IF call.end_date.valid /\ call.start_date.valid
    THEN call.end_date.day * 86400 + 86399 - 14 * 86400
    ELSE NowInstant - 14 * 86400

RECURSIVE SumOver(_, _)
SumOver(map, keys) ==
    IF keys = {} THEN 0
    ELSE LET k == CHOOSE x \in keys : TRUE IN map[k] + SumOver(map, keys \ {k})

Occurrences(seq, x) == Cardinality({i \in 1..Len(seq) : seq[i] = x})

----------------------------------------------------------------------------
\* C1: in the overall view, new_users + old_users is the number of distinct
\* user_id values of the fetched sessions, whatever the cohort source answers
\* (also when it lacks the first_login of some users).
C1_NewPlusOldIsDistinctUsers ==
    view.kind = "overall" =>
        view.new_users + view.old_users = Cardinality(UserIdsOf(frame.sessions))

\* C2: with threshold = window end - 14 days, a user whose first_seen is the
\* threshold or later is New and one whose first_seen is strictly earlier is
\* Old: in the counts of both views, and in the New and the Old filter, which
\* pass exactly the sessions of the New, respectively of the Old users.
C2_BoundaryIsNew ==
    Computed =>
        /\ frame.threshold = ClaimedThreshold
        /\ view.kind = "overall" =>
            /\ view.new_users =
                  Cardinality({u \in DOMAIN Cohort : Cohort[u] >= ClaimedThreshold})
            /\ view.old_users =
                  Cardinality({u \in DOMAIN Cohort : Cohort[u] < ClaimedThreshold})
        /\ view.kind = "pagewise" =>
            view.new_users =
                Cardinality({u \in UserIdsOf(frame.filtered_sessions) \cap DOMAIN Cohort :
                                Cohort[u] >= ClaimedThreshold})
        /\ \A i \in 1..Len(Candidates) :
            LET s == Candidates[i] IN
            s.user_id \in DOMAIN Cohort =>
                /\ call.user_filter = "New" =>
                      (s \in Range(frame.filtered_sessions)
                          <=> Cohort[s.user_id] >= ClaimedThreshold)
                /\ call.user_filter = "Old" =>
                      (s \in Range(frame.filtered_sessions)
                          <=> Cohort[s.user_id] < ClaimedThreshold)

\* a per-page view under the New filter: a user first seen exactly at the
\* threshold passes and is counted New, one first seen a second earlier is
\* filtered out
C2_Witness ==
    /\ view.kind = "pagewise"
    /\ call.user_filter = "New"
    /\ \E i, j \in 1..Len(Candidates) :
        /\ Candidates[i].user_id \in DOMAIN Cohort
        /\ Candidates[j].user_id \in DOMAIN Cohort
        /\ Cohort[Candidates[i].user_id] = ClaimedThreshold
        /\ Cohort[Candidates[j].user_id] = ClaimedThreshold - 1
        /\ Candidates[i] \in Range(frame.filtered_sessions)
        /\ Candidates[j] \notin Range(frame.filtered_sessions)
    /\ view.new_users = 1

\* C3: the new/old counts do not depend on user_filter: the counts a view
\* shows are those it shows for the same sessions, window and cohort data
\* under each of All, New and Old.
C3_CountsIndependentOfFilter ==
    Computed =>
        \A f \in UserFilters :
            IF view.kind = "overall"
            THEN LET d == aggregate_overall(frame.sessions, Cohort, frame.end_dt, f)
                 IN  d.new_users = view.new_users /\ d.old_users = view.old_users
            ELSE LET d == aggregate_pagewise(frame.sessions, call.page, Cohort,
                                             frame.end_dt, f)
                 IN  /\ PagewiseNewUsers(d.page_sessions, Cohort, frame.threshold)
                            = view.new_users
                     /\ PagewiseOldUsers(d.page_sessions, Cohort, frame.threshold)
                            = view.old_users

\* C4: a user with no known first_seen is in neither bucket: the sessions of
\* such a user pass neither the New nor the Old filter, and the user is in
\* neither count, so new_users + old_users counts known users only.
C4_UnknownExcluded ==
    Computed =>
        /\ call.user_filter \in {"New", "Old"} =>
            \A i \in 1..Len(Candidates) :
                Candidates[i].user_id \notin DOMAIN Cohort =>
                    Candidates[i] \notin Range(frame.filtered_sessions)
        /\ view.new_users + view.old_users <=
              Cardinality(UserIdsOf(Candidates) \cap DOMAIN Cohort)

----------------------------------------------------------------------------
\* The page ranking and the referral distribution (SpecRank).

FilteredPages == {frame.filtered_sessions[i].page : i \in 1..Len(frame.filtered_sessions)}

KeysOf(items) == {items[i].key : i \in 1..Len(items)}

\* item a comes before item b: by the count (descending in the top ranking,
\* ascending in the bottom ranking), equal counts by page name ascending
Precedes(a, b, descending) ==
    \/ (IF descending THEN a.count > b.count ELSE a.count < b.count)
    \/ a.count = b.count /\ PageRank(a.key) < PageRank(b.key)

\* a ranking is in that order and holds the first pages of it
RankedByCountThenName(ranking, descending) ==
    /\ \A i, j \in 1..Len(ranking) : i < j => Precedes(ranking[i], ranking[j], descending)
    /\ \A p \in FilteredPages \ KeysOf(ranking) :
          \A i \in 1..Len(ranking) :
              Precedes(ranking[i],
                       [key |-> p, count |-> Occurrences(PagesOf(frame.filtered_sessions), p)],
                       descending)

\* C5: top-k is the k pages of highest count and bottom-k the k pages of
\* lowest count, pages of equal count ordered, and chosen at the cut, by page
\* name ascending.
C5_TiesByPageName ==
    view.kind = "overall" =>
        /\ RankedByCountThenName(view.top_pages, TRUE)
        /\ RankedByCountThenName(view.bottom_pages, FALSE)

\* a ranking holds only pages of the filtered sessions, each once and with
\* its number of occurrences, and min(5, distinct pages) of them
ExactRanking(ranking) ==
    /\ Len(ranking) = (IF Cardinality(FilteredPages) < 5
                       THEN Cardinality(FilteredPages) ELSE 5)
    /\ Cardinality(KeysOf(ranking)) = Len(ranking)
    /\ \A i \in 1..Len(ranking) :
          /\ ranking[i].key \in FilteredPages
          /\ ranking[i].count =
                Occurrences(PagesOf(frame.filtered_sessions), ranking[i].key)
    /\ Cardinality(FilteredPages) < 5 => KeysOf(ranking) = FilteredPages

\* C6: top_pages and bottom_pages hold only pages that occur in the filtered
\* sessions, each with its exact count, and min(5, distinct pages) entries
\* each: every observed page when there are fewer than 5.
C6_RankingsAreObservedPages ==
    view.kind = "overall" =>
        ExactRanking(view.top_pages) /\ ExactRanking(view.bottom_pages)

\* six distinct pages were visited: both rankings are cut to five
C6_Witness ==
    /\ view.kind = "overall"
    /\ Cardinality(FilteredPages) = 6
    /\ Len(view.top_pages) = 5
    /\ Len(view.bottom_pages) = 5

\* C7: the referral distribution counts all sessions of the window, the same
\* under every user_filter, and its counts sum to the number of sessions,
\* sessions without a referral_source included.
C7_ReferralSumsToSessions ==
    view.kind = "overall" =>
        SumOver(view.source_distribution, DOMAIN view.source_distribution)
            = Len(frame.sessions)

\* C8 as claimed: the page counts the overall view returns sum to the number
\* of sessions that passed the filter.
C8_ReturnedCountsSum ==
    view.kind = "overall" =>
        /\ SumSeq(CountsOf(view.top_pages)) = Len(frame.filtered_sessions)
        /\ SumSeq(CountsOf(view.bottom_pages)) = Len(frame.filtered_sessions)

\* C8 amended: the counts of page_counts, the complete ranking before its cut
\* to five, sum to the number of sessions that passed the filter (all the
\* sessions under All), with one entry per distinct page; the returned
\* top_pages and bottom_pages sum to it when the filtered sessions have at
\* most 5 distinct pages.
C8_PageCountsSum ==
    view.kind = "overall" =>
        /\ SumSeq(CountsOf(frame.page_counts)) = Len(frame.filtered_sessions)
        /\ KeysOf(frame.page_counts) = FilteredPages
        /\ Len(frame.page_counts) = Cardinality(FilteredPages)
        /\ call.user_filter = "All" => frame.filtered_sessions = frame.sessions
        /\ Cardinality(FilteredPages) <= 5 =>
              /\ SumSeq(CountsOf(view.top_pages)) = Len(frame.filtered_sessions)
              /\ SumSeq(CountsOf(view.bottom_pages)) = Len(frame.filtered_sessions)

\* the New filter let some sessions through and held others back, and a page
\* was visited more than once
C8_Witness ==
    /\ view.kind = "overall"
    /\ call.user_filter = "New"
    /\ Len(frame.filtered_sessions) > 2
    /\ Len(frame.filtered_sessions) < Len(frame.sessions)
    /\ Len(frame.page_counts) = 2

----------------------------------------------------------------------------
\* The traffic series (SpecTraffic).

\* how often a weekday occurs in [window.start.date, window.end.date]
DaysOfWindow == DateOf(frame.start_dt)..DateOf(frame.end_dt)
OccursInWindow(w) == Cardinality({d \in DaysOfWindow : weekday_order[(d % 7) + 1] = w})

SessionsOn(w) ==
    Cardinality({i \in 1..Len(frame.filtered_sessions) :
        weekday_order[(DateOf(frame.filtered_sessions[i].timestamp) % 7) + 1] = w})

\* C9: the weekday series has one entry per weekday, Monday to Sunday, each
\* the weekday's session count divided by the number of times the weekday
\* occurs in the window; a weekday without sessions, or that does not occur
\* in the window, has average 0 and is not missing.
C9_WeeklySeries ==
    (Computed /\ view.traffic_fig.mode = "weekly") =>
        LET rows == view.traffic_fig.rows IN
        /\ Len(rows) = 7
        /\ \A p \in 1..Len(rows) :
              /\ rows[p].Weekday = weekday_order[p]
              /\ rows[p].AvgSessions[1] = SessionsOn(rows[p].Weekday)
              /\ rows[p].AvgSessions[2] # 0
              /\ OccursInWindow(rows[p].Weekday) > 0 =>
                    rows[p].AvgSessions[2] = OccursInWindow(rows[p].Weekday)
              /\ OccursInWindow(rows[p].Weekday) = 0 => rows[p].AvgSessions[1] = 0

\* D = (window.end.date - window.start.date).days + 1
ClaimedDays ==
    IF call.start_date.valid /\ call.end_date.valid
    THEN call.end_date.day - call.start_date.day + 1
    ELSE 31

\* C10: the hour series has one entry per hour that has sessions, in
\* ascending order of the hour, each the hour's session count divided by D;
\* the counts sum to the number N of filtered sessions, so the averages,
\* all over D, sum to N/D.
C10_HourlySeries ==
    (Computed /\ view.traffic_fig.mode = "daily") =>
        LET rows == view.traffic_fig.rows
            hours == {HourOf(frame.filtered_sessions[i].timestamp) :
                         i \in 1..Len(frame.filtered_sessions)}
        IN  /\ ClaimedDays > 0
            /\ {rows[p].Hour : p \in 1..Len(rows)} = hours
            /\ \A p, q \in 1..Len(rows) : p < q => rows[p].Hour < rows[q].Hour
            /\ \A p \in 1..Len(rows) :
                  /\ rows[p].Hour \in 0..23
                  /\ rows[p].AvgSessions[1] =
                        Cardinality({i \in 1..Len(frame.filtered_sessions) :
                            HourOf(frame.filtered_sessions[i].timestamp) = rows[p].Hour})
                  /\ rows[p].AvgSessions[2] = ClaimedDays
            /\ SumSeq([p \in 1..Len(rows) |-> rows[p].AvgSessions[1]])
                  = Len(frame.filtered_sessions)

\* an 8-day window with sessions at two hours, two of them at the same hour
\* on different days
C10_Witness ==
    /\ Computed
    /\ view.traffic_fig.mode = "daily"
    /\ ClaimedDays = 8
    /\ Len(view.traffic_fig.rows) = 2
    /\ \E p \in 1..2 : view.traffic_fig.rows[p].AvgSessions = <<2, 8>>

----------------------------------------------------------------------------
\* The calendar series (SpecCalendar).

\* the orders a sequence can be put in
Orderings(seq) ==
    {Tuple([i \in 1..Len(seq) |-> seq[f[i]]]) :
        f \in {g \in [1..Len(seq) -> 1..Len(seq)] :
                  \A i, j \in 1..Len(seq) : g[i] = g[j] => i = j}}

\* the calendar bucketing of the view
Bucketing(sessions) ==
    IF view.kind = "overall" THEN DailyTraffic(sessions)
    ELSE PagewiseDailyTraffic(sessions)

\* C11: the daily series is the same for every order of the filtered
\* sessions, is strictly ascending by date, has exactly the dates with at
\* least one session, and its counts sum to the number of filtered sessions.
C11_CalendarDeterministic ==
    (Computed /\ view.traffic_fig.mode = "overall") =>
        LET rows == view.traffic_fig.rows IN
        /\ \A perm \in Orderings(frame.filtered_sessions) : Bucketing(perm) = rows
        /\ \A p, q \in 1..Len(rows) : p < q => rows[p].Date < rows[q].Date
        /\ {rows[p].Date : p \in 1..Len(rows)} =
              {frame.filtered_sessions[i].timestamp \div 86400 :
                  i \in 1..Len(frame.filtered_sessions)}
        /\ \A p \in 1..Len(rows) : rows[p].Sessions >= 1
        /\ SumSeq([p \in 1..Len(rows) |-> rows[p].Sessions]) = Len(frame.filtered_sessions)

\* the sessions reached the aggregation with the later date first, and a
\* date has two of them
C11_Witness ==
    /\ Computed
    /\ view.traffic_fig.mode = "overall"
    /\ Len(frame.filtered_sessions) = 3
    /\ frame.filtered_sessions[1].timestamp > frame.filtered_sessions[2].timestamp
    /\ Len(view.traffic_fig.rows) = 2

----------------------------------------------------------------------------
\* Failures of the sources and of the inputs.

\* C12: when the window has no session, the overall view has total_records,
\* distinct_users, new_users and old_users 0, an empty traffic series and
\* empty rankings, and does not fail, whatever the cohort source does.
C12_EmptyWindowZeros ==
    (call.handler = "update_overall" /\ frame.sessions = <<>>) =>
        /\ view.kind = "overall"
        /\ view.total_records = 0
        /\ view.distinct_users = 0
        /\ view.new_users = 0
        /\ view.old_users = 0
        /\ view.traffic_fig.rows = <<>>
        /\ view.top_pages = <<>>
        /\ view.bottom_pages = <<>>

\* C13: whether a source raises, finds nothing or answers, fetch_sessions
\* gives sessions of the window, fetch_users gives a mapping (possibly
\* empty), and the view is computed without error.
C13_SourcesRecover ==
    (call.handler \in {"update_overall", "update_pagewise"}) =>
        /\ \A i \in 1..Len(frame.sessions) :
              /\ frame.sessions[i].timestamp >= frame.start_dt
              /\ frame.sessions[i].timestamp <= frame.end_dt
        /\ (call.handler = "update_overall" \/ call.page # "") => frame.user_first.some
        /\ view.kind # "error"

\* C14: when one metric of a view cannot be computed, the other metrics of
\* the view are still returned: the overall view always has its
\* total_records, the view of a page its total_visits.
C14_MetricsIsolated ==
    /\ call.handler = "update_overall" =>
          /\ "total_records" \in DOMAIN view
          /\ view.total_records = Len(frame.sessions)
    /\ (call.handler = "update_pagewise" /\ call.page # "") =>
          "total_visits" \in DOMAIN view

\* C17: with a window bound that does not parse, each callback takes the
\* window [now - 30 days, now], fetches the sessions of that window, takes
\* the cohort threshold from its end, and returns a normal result.
C17_DefaultWindow ==
    (call.handler # "none" /\ ~(call.start_date.valid /\ call.end_date.valid)) =>
        /\ frame.start_dt = NowInstant - 30 * 86400
        /\ frame.end_dt = NowInstant
        /\ frame.threshold = NowInstant - 14 * 86400
        /\ \A i \in 1..Len(frame.sessions) :
              /\ frame.sessions[i].timestamp >= NowInstant - 30 * 86400
              /\ frame.sessions[i].timestamp <= NowInstant
        /\ view.kind # "error"

----------------------------------------------------------------------------
\* The device chart (SpecDevice).

\* the label the rules give each user agent of the specification: Mobile
\* for iphone or android in any case, also next to linux; else Desktop for
\* windows, mac or linux; else Other, also for the empty and the missing one
ClaimedDevice(a) ==
    IF a \in {Agent_iPhone, Agent_ANDROID, Agent_LinuxAndroid} THEN "Mobile"
    ELSE IF a \in {Agent_Macintosh, DesktopAgent} THEN "Desktop"
    ELSE "Other"

\* C16: classify_device is case-insensitive, gives Mobile before Desktop
\* before Other, and is total: the device chart of a page counts every
\* session of the page under the label of its user_agent, an empty or a
\* missing user_agent under Other, and does not fail.
C16_ClassifyDeviceTotal ==
    (call.handler = "update_pagewise" /\ call.page # "") =>
        /\ view.kind = "pagewise"
        /\ \A l \in {"Mobile", "Desktop", "Other"} :
              LET n == Cardinality({i \in 1..Len(frame.filtered_sessions) :
                           ClaimedDevice(frame.filtered_sessions[i].user_agent) = l})
              IN  IF n = 0 THEN l \notin DOMAIN view.dev_series
                  ELSE l \in DOMAIN view.dev_series /\ view.dev_series[l] = n

----------------------------------------------------------------------------
\* The quotients of the views (SpecTraffic).

\* a quotient that was evaluated has a denominator other than 0
Sound(ratio) == ratio = <<>> \/ ratio[2] # 0

\* the filtered sessions of the seven days up to day last
SessionsOfWeek(last) ==
    Cardinality({i \in 1..Len(frame.filtered_sessions) :
        frame.filtered_sessions[i].timestamp \div 86400 \in (last - 6)..last})

\* C18: no quotient is evaluated with denominator 0, for every window, also
\* one that ends before it starts: the weekday and the hour averages, the
\* average time and the bounce rate (not evaluated without visits) and the
\* week-over-week change, which is 'no baseline' when last week has no
\* session and else (this week - last week) / last week.
C18_NoZeroDenominator ==
    Computed =>
        /\ \A p \in 1..Len(view.traffic_fig.rows) :
              view.traffic_fig.mode \in {"weekly", "daily"} =>
                  view.traffic_fig.rows[p].AvgSessions[2] > 0
        /\ (view.traffic_fig.mode = "daily") => frame.end_dt \div 86400 >= frame.start_dt \div 86400
        /\ view.kind = "pagewise" =>
            LET last == SessionsOfWeek(frame.end_dt \div 86400 - 7)
                this == SessionsOfWeek(frame.end_dt \div 86400)
            IN  /\ Sound(view.avg_time)
                /\ Sound(view.bounce_rate)
                /\ (view.total_visits = 0) <=> (view.bounce_rate = <<>>)
                /\ (view.total_visits = 0) <=> (view.avg_time = <<>>)
                /\ view.total_visits = 0 => view.exits = 0
                /\ Sound(view.change.diff)
                /\ (last = 0) <=> ~view.change.baseline
                /\ last = 0 => view.change.diff = <<>>
                /\ last # 0 => view.change.diff = <<this - last, last>>

\* a page view for a window that ends the day before it starts, hour mode
\* asked: no session, no figure, no quotient, no baseline
C18_Witness ==
    /\ view.kind = "pagewise"
    /\ call.start_date.valid /\ call.end_date.valid
    /\ call.end_date.day < call.start_date.day
    /\ call.traffic_mode = "daily"
    /\ view.total_visits = 0
    /\ view.bounce_rate = <<>>
    /\ ~view.change.baseline

----------------------------------------------------------------------------
\* The bounce rate (Spec).

\* C19: the bounce rate of a page is exits / total_visits x 100 where only
\* the last session of the page's filtered list is an exit: with sessions
\* exactly one, also when several records have the same field values, and
\* the rate is 0 without sessions.
C19_OneExit ==
    view.kind = "pagewise" =>
        /\ view.total_visits = Len(frame.filtered_sessions)
        /\ view.total_visits > 0 =>
              view.exits = 1 /\ view.bounce_rate = <<1, view.total_visits>>
        /\ view.total_visits = 0 => view.exits = 0 /\ view.bounce_rate = <<>>

----------------------------------------------------------------------------
\* The journey figure (SpecSankey).

\* the sum of the values of the links that satisfy keep
LinkSum(links, keep(_)) ==
    SumSeq(Tuple([p \in 1..Len(links) |-> IF keep(links[p]) THEN links[p].value ELSE 0]))

\* C20: for a page with sessions, whatever random.choice draws, the figure
\* is a graph with sorted, distinct labels, links between valid label
\* indices whose values sum to (3 - 1) x the number of sessions, one link
\* unit per session leaving its referral_source, and every target one of
\* the nine pages; for a page without sessions it is the empty graph.
C20_SankeyWellFormed ==
    (call.handler = "update_pagewise" /\ call.page # "") =>
        /\ view.kind = "pagewise"
        /\ LET g == view.sankey_fig
               n == Len(frame.filtered_sessions)
               referrals == {frame.filtered_sessions[i].referral_source : i \in 1..n}
           IN  /\ n = 0 => g.kind = "empty" /\ g.labels = <<>> /\ g.links = <<>>
               /\ n > 0 =>
                   /\ g.kind = "graph"
                   /\ \A p, q \in 1..Len(g.labels) :
                         p < q => LabelRank(g.labels[p]) < LabelRank(g.labels[q])
                   /\ \A p \in 1..Len(g.links) :
                         /\ g.links[p].source \in 0..(Len(g.labels) - 1)
                         /\ g.links[p].target \in 0..(Len(g.labels) - 1)
                         /\ g.links[p].value >= 1
                         /\ g.labels[g.links[p].target + 1] \in KnownPages
                   /\ LinkSum(g.links, LAMBDA l : TRUE) = 2 * n
                   /\ \A r \in referrals :
                         LinkSum(g.links, LAMBDA l : g.labels[l.source + 1] = r)
                             = Cardinality({i \in 1..n :
                                   frame.filtered_sessions[i].referral_source = r})

----------------------------------------------------------------------------
\* Concurrent requests (SpecConcurrent).

\* what a request that got the sessions of dataset d returns when no other
\* request runs: the aggregate of these sessions with the first logins of d
AloneResult(d) ==
    LET sessions == SelectSeq(d.sessions, LAMBDA s : InWindow(s, RequestStart, RequestEnd))
        user_first == [u \in UserIdsOf(sessions) \cap DOMAIN d.users |-> d.users[u]]
        data == aggregate_overall(sessions, user_first, RequestEnd, "All")
    IN  [kind |-> "overall", total_records |-> data.total_records,
         distinct_users |-> data.distinct_users,
         new_users |-> data.new_users, old_users |-> data.old_users]

\* C15: concurrent requests do not interfere: under every interleaving each
\* request returns what it would return alone, and the first logins it uses
\* are those of the dataset its sessions are from.
C15_NoInterference ==
    \A r \in Requests :
        req[r].pc = "done" =>
            /\ req[r].result.kind = "overall"
            /\ \A u \in DOMAIN req[r].user_first :
                  /\ u \in DOMAIN req[r].got.users
                  /\ req[r].user_first[u] = req[r].got.users[u]
            /\ req[r].result = AloneResult(req[r].got)

----------------------------------------------------------------------------
\* The two views on the same sessions and cohort data (Spec).

\* C21: the overall and the per-page view apply the same cohort filter: on the
\* same window sessions, cohort data, page and user_filter, the filtered
\* sessions of the per-page view are the filtered sessions of the overall
\* view restricted to the page.
C21_SameCohortFilter ==
    /\ view.kind = "pagewise" =>
          frame.filtered_sessions =
              PageSessions(FilterOverall(frame.sessions, Cohort, frame.threshold,
                                         call.user_filter), call.page)
    /\ view.kind = "overall" =>
          \A page \in CohortPages :
              PageSessions(frame.filtered_sessions, page) =
                  aggregate_pagewise(frame.sessions, page, Cohort, frame.end_dt,
                                     call.user_filter).page_sessions

====
